---- MODULE Spec2Model ----
(***************************************************************************)
(* Model of the employee-directory service's rate limiting and search.     *)
(*                                                                         *)
(* Part 1: the middleware stack (app/main.py, app/core/middleware.py), the *)
(* hybrid rate limiter (app/core/hybrid_rate_limiter.py) and the Redis     *)
(* client (app/core/redis_client.py).  Requests are coroutines of one      *)
(* asyncio event loop: a step of the model is the code between two await   *)
(* points that really suspend (network I/O, a contended lock).             *)
(*                                                                         *)
(* Part 2: the employee store and the two search operations                *)
(* (app/repositories/employee.py, app/services/advanced_search.py,         *)
(* app/api/endpoints/employees.py).                                        *)
(*                                                                         *)
(* Time is counted in ticks, TicksPerSec ticks to the second: time.time()  *)
(* is the clock in ticks and int(time.time()) the whole second.  Float     *)
(* arithmetic on times is modelled exactly (as rationals).                 *)
(***************************************************************************)
EXTENDS Integers, Sequences, FiniteSets, TLC

\* ------------------------------------------------------------------ bounds
TicksPerSec == 2
MaxTime == 3
MaxCalls == 4
MwMaxCalls == 2
MaxRate == 2
SmallWindow == 1
MaxEmp == 3
MaxPage == 4
MaxPageSize == 2

Procs == {1, 2}
IPs == {"ip1"}
OrgHeaders == {"org1", "org2"}
Orgs == OrgHeaders \cup {"default"}
\* variant: the search path is exempt as well
ExemptPaths_WithSearch ==
    {"/", "/health", "/docs", "/redoc", "/openapi.json", "/api/v1/employees/search"}

ExemptPaths == {"/", "/health", "/docs", "/redoc", "/openapi.json"}
Paths == {"/health", "/api/v1/employees/search"}
\* (rate_limit, window_size) as the limiter is constructed: small windows,
\* which refill and expire within MaxTime, and the pair 3 per 60 seconds.
Configs == ((1..MaxRate) \X {SmallWindow}) \cup {<<3, 60>>}
Seconds == 0..(MaxTime \div TicksPerSec)
ClientIds == IPs \X Orgs
\* request.state.organization_id of the requests check_rate_limit is called
\* on directly ("": not set)
CallOrgs == {""}

Min(a, b) == IF a < b THEN a ELSE b
Max(a, b) == IF a > b THEN a ELSE b

VARIABLES
    rate_limit,       \* HybridRateLimiter.rate_limit
    window_size,      \* HybridRateLimiter.window_size (seconds)
    settings,         \* [url, rl]: REDIS_URL is set, REDIS_RATE_LIMITING
    memory_tokens,    \* HybridRateLimiter.memory_tokens
    redis_available,  \* HybridRateLimiter._redis_available
    connected,        \* RedisClient._connected
    handle,           \* RedisClient._redis is not None
    lock,             \* holder of RedisClient._connection_lock, 0 when free
    started,          \* the lifespan's startup has run
    clock,            \* time.time(), in ticks
    redis_up,         \* the Redis server answers
    zset,             \* Redis: the sorted set "<client_id>:window", its members
    ttl,              \* Redis: the key's expiry time in ticks, -1 without one
    rq,               \* the requests in flight, one per slot
    ncalls,           \* requests begun so far
    ever_down,        \* history: some Redis operation has failed
    mem_stat,         \* history: per key, the in-memory checks and the tokens
                      \* computed by refills since creation
    redis_grants,     \* history: per key and second, calls allowed by Redis
    store,            \* the employee table, in primary-key order
    sres              \* the last search: its inputs and what it returned

rlvars == <<rate_limit, window_size, settings, memory_tokens, redis_available,
            connected, handle, lock, started, clock, redis_up, zset, ttl, rq,
            ncalls, ever_down, mem_stat, redis_grants>>
svars == <<store, sres>>
vars == <<rlvars, svars>>

\* --------------------------------------------------------- middleware stack
\* app/main.py: the order of the app.add_middleware calls.
AddOrder == <<"LoggingMiddleware", "OrganizationMiddleware", "RateLimitMiddleware",
              "SecurityValidationMiddleware", "SecurityHeadersMiddleware",
              "CORSMiddleware">>

\* Starlette wraps the application in each middleware as it is added, so the
\* middleware added last is the outermost and runs first.
ExecOrder == [i \in 1..Len(AddOrder) |-> AddOrder[Len(AddOrder) + 1 - i]]

Position(m) == CHOOSE i \in 1..Len(ExecOrder) : ExecOrder[i] = m
RunsBefore(a, b) == Position(a) < Position(b)

\* OrganizationMiddleware.dispatch, its try block up to call_next: the value it
\* leaves in request.state.organization_id.
OrgFromHeader(org_header) == org_header

\* request.state.organization_id as RateLimitMiddleware.dispatch finds it:
\* "" (the attribute is missing) unless OrganizationMiddleware ran already.
StateOrgAtRateLimit(org_header) ==
    IF RunsBefore("OrganizationMiddleware", "RateLimitMiddleware")
    THEN OrgFromHeader(org_header) ELSE ""

\* HybridRateLimiter._get_client_id.  Nothing in the repository sets
\* request.state.user_id, so the key is always the two-level one.
GetClientId(ip, state_org) ==
    <<ip, IF state_org = "" THEN "default" ELSE state_org>>

\* ------------------------------------------------------------ token bucket
NoBucket == [tokens |-> -1, last |-> -1]

\* variant: the refill adds the tokens and leaves the timestamp as it was
RefillTokens_KeepsTimestamp(mt, cid, now) ==
    IF mt[cid] = NoBucket
    THEN [mt EXCEPT ![cid] = [tokens |-> rate_limit, last |-> now]]
    ELSE LET time_passed == now - mt[cid].last
             new_tokens == (time_passed * rate_limit) \div (window_size * TicksPerSec)
         IN IF new_tokens > 0
            THEN [mt EXCEPT ![cid].tokens = Min(mt[cid].tokens + new_tokens, rate_limit)]
            ELSE mt

\* HybridRateLimiter._refill_tokens, on the bucket map mt at time now (ticks).
RefillTokens(mt, cid, now) ==
    IF mt[cid] = NoBucket
    THEN [mt EXCEPT ![cid] = [tokens |-> rate_limit, last |-> now]]
    ELSE LET time_passed == now - mt[cid].last
             new_tokens == (time_passed * rate_limit) \div (window_size * TicksPerSec)
         IN IF new_tokens > 0
            THEN [mt EXCEPT ![cid] = [tokens |-> Min(mt[cid].tokens + new_tokens, rate_limit),
                                      last |-> now]]
            ELSE mt

\* _refill_tokens: the new_tokens it computes for the key (0 for a new key)
NewTokens(mt, cid, now) ==
    IF mt[cid] = NoBucket THEN 0
    ELSE Max(0, ((now - mt[cid].last) * rate_limit) \div (window_size * TicksPerSec))

\* int(self.window_size / self.rate_limit)
RetryAfter == window_size \div rate_limit

\* variant: the bucket denies while one token is left
CheckMemoryRateLimit_OffByOne(mt, cid, now) ==
    LET m1 == RefillTokens(mt, cid, now)
    IN IF m1[cid].tokens <= 1
       THEN [mt |-> m1, allowed |-> FALSE, retry |-> RetryAfter]
       ELSE [mt |-> [m1 EXCEPT ![cid].tokens = @ - 1], allowed |-> TRUE, retry |-> 0]

\* variant: a denied call takes a token as well
CheckMemoryRateLimit_DenialConsumes(mt, cid, now) ==
    LET m1 == RefillTokens(mt, cid, now)
    IN [mt |-> [m1 EXCEPT ![cid].tokens = @ - 1],
        allowed |-> m1[cid].tokens > 0,
        retry |-> IF m1[cid].tokens > 0 THEN 0 ELSE RetryAfter]

\* HybridRateLimiter._check_memory_rate_limit: the new bucket map and the
\* (is_allowed, retry_after) pair.
CheckMemoryRateLimit(mt, cid, now) ==
    LET m1 == RefillTokens(mt, cid, now)
    IN IF m1[cid] = NoBucket
       THEN [mt |-> [m1 EXCEPT ![cid] = [tokens |-> rate_limit - 1, last |-> now]],
             allowed |-> TRUE, retry |-> 0]
       ELSE IF m1[cid].tokens <= 0
            THEN [mt |-> m1, allowed |-> FALSE, retry |-> RetryAfter]
            ELSE [mt |-> [m1 EXCEPT ![cid].tokens = @ - 1], allowed |-> TRUE, retry |-> 0]

\* ------------------------------------------------------------------ Redis
\* ZREMRANGEBYSCORE key 0 window_start: the members that stay.
ZRemRangeByScore(members, window_start) ==
    {m \in members : ~(0 <= m /\ m <= window_start)}

\* ZADD key {str(current_time): current_time}: the member is the second's
\* decimal string, so a second already in the set is not added again.
ZAdd(members, current_time) == members \cup {current_time}

\* EXPIRE key window_size at server time now: the key's new expiry; a key
\* that does not exist (an empty sorted set) takes none.
ExpireKey(members, old_ttl, now) ==
    IF members = {} THEN -1 ELSE now + window_size * TicksPerSec

\* ---------------------------------------------------------------- requests
IdleReq == [pc |-> "idle", mw |-> FALSE, ip |-> "", path |-> "", org_header |-> "",
            state_org |-> "", client_id |-> <<"", "">>, current_time |-> -1,
            allowed |-> "", retry_after |-> -1, label |-> "", decided_by |-> "",
            checked |-> FALSE, handler_calls |-> 0, status |-> "", failed |-> FALSE,
            info |-> [returned |-> FALSE, client_id |-> <<"", "">>, rate_limit |-> 0,
                      window_size |-> 0, backend |-> "", error |-> FALSE]]

NoStat == [created |-> -1, calls |-> 0, allowed |-> 0, credited |-> 0]

\* history: calls Redis allowed for cid in the window that ends at second t
WindowGrants(cid, t) ==
    LET S == {s \in Seconds : s > t - window_size /\ s <= t}
        RECURSIVE Sum(_)
        Sum(T) == IF T = {} THEN 0
                  ELSE LET x == CHOOSE y \in T : TRUE
                       IN redis_grants[cid][x] + Sum(T \ {x})
    IN Sum(S)

\* ------------------------------------------------- check_rate_limit, pieces
\* Each piece below is the code that runs without suspending from some point
\* of HybridRateLimiter.check_rate_limit on; together they set
\* memory_tokens, redis_available, rq and the history of decisions.

\* check_rate_limit, after the strategy returned: a denial raises the 429,
\* which RateLimitMiddleware.dispatch re-raises; otherwise check_rate_limit
\* returns and dispatch (r.mw: the call came from it) goes on to call_next.
\* avail is self._redis_available as the denial reads it.
Outcome(r, is_allowed, retry, by, avail) ==
    [r EXCEPT !.pc = IF is_allowed /\ r.mw THEN "handler" ELSE "done",
              !.allowed = IF is_allowed THEN "yes" ELSE "no",
              !.retry_after = retry,
              !.decided_by = by,
              !.label = IF is_allowed THEN ""
                        ELSE IF avail THEN "redis" ELSE "memory",
              !.status = IF is_allowed THEN "" ELSE "429"]

\* _check_memory_rate_limit and the rest of check_rate_limit; the caller has
\* set redis_available'.
UseMemory(p, r, cid) ==
    LET res == CheckMemoryRateLimit(memory_tokens, cid, clock)
    IN /\ memory_tokens' = res.mt
       /\ mem_stat' = [mem_stat EXCEPT ![cid] =
              [created |-> IF memory_tokens[cid] = NoBucket THEN clock ELSE @.created,
               calls |-> @.calls + 1,
               allowed |-> @.allowed + (IF res.allowed THEN 1 ELSE 0),
               credited |-> @.credited + NewTokens(memory_tokens, cid, clock)]]
       /\ redis_grants' = redis_grants
       /\ rq' = [rq EXCEPT ![p] = Outcome(r, res.allowed, res.retry, "memory",
                                          redis_available')]

\* variant: the except clause leaves self._redis_available as it was
Fallback_KeepsMode(p, r, cid) ==
    /\ redis_available' = redis_available
    /\ UseMemory(p, [r EXCEPT !.failed = TRUE], cid)

\* _check_redis_rate_limit, its except clause
Fallback(p, r, cid) ==
    /\ redis_available' = FALSE
    /\ UseMemory(p, [r EXCEPT !.failed = TRUE], cid)

\* _check_redis_rate_limit up to "await pipe.execute()"; h: redis_client._redis
\* is set (with None, .pipeline() raises AttributeError inside the try).
EnterRedis(p, r, cid, h) ==
    IF h
    THEN /\ redis_available' = TRUE
         /\ UNCHANGED <<memory_tokens, mem_stat, redis_grants>>
         /\ rq' = [rq EXCEPT ![p] = [r EXCEPT !.pc = "pipe",
                                       !.current_time = clock \div TicksPerSec]]
    ELSE Fallback(p, r, cid)

\* variant: a failed connection attempt is raised to the caller
Strategy_Raises(p, r, cid, avail, h) ==
    IF avail
    THEN EnterRedis(p, r, cid, h)
    ELSE IF r.failed
         THEN /\ redis_available' = FALSE
              /\ UNCHANGED <<memory_tokens, mem_stat, redis_grants>>
              /\ rq' = [rq EXCEPT ![p] = [r EXCEPT !.pc = "done", !.status = "500"]]
         ELSE /\ redis_available' = FALSE
              /\ UseMemory(p, r, cid)

\* check_rate_limit, "Choose rate limiting strategy"; avail is the value
\* _init_redis_if_needed left in self._redis_available.
Strategy(p, r, cid, avail, h) ==
    IF avail
    THEN EnterRedis(p, r, cid, h)
    ELSE /\ redis_available' = FALSE
         /\ UseMemory(p, r, cid)

\* RedisClient.connect inside the lock, up to "await self._redis.ping()"
ConnectLocked(p, r, cid) ==
    IF connected /\ handle
    THEN /\ UNCHANGED <<connected, handle>>
         /\ lock' = 0
         /\ Strategy(p, r, cid, TRUE, handle)
    ELSE /\ handle' = TRUE
         /\ UNCHANGED connected
         /\ lock' = p
         /\ rq' = [rq EXCEPT ![p] = [r EXCEPT !.pc = "ping"]]
         /\ UNCHANGED <<memory_tokens, redis_available, mem_stat, redis_grants>>

\* variant: check_rate_limit goes on with _redis_available as it finds it,
\* without _init_redis_if_needed
CheckRateLimit_NoInit(p, r0) ==
    LET cid == GetClientId(r0.ip, r0.state_org)
        r == [r0 EXCEPT !.client_id = cid, !.checked = TRUE]
    IN /\ UNCHANGED <<connected, handle, lock>>
       /\ Strategy(p, r, cid, redis_available, handle)

\* variant: connect attempts a connection whatever REDIS_URL and
\* REDIS_RATE_LIMITING say
CheckRateLimit_AlwaysConnects(p, r0) ==
    LET cid == GetClientId(r0.ip, r0.state_org)
        r == [r0 EXCEPT !.client_id = cid, !.checked = TRUE]
    IN IF ~redis_available
       THEN IF lock # 0
            THEN /\ rq' = [rq EXCEPT ![p] = [r EXCEPT !.pc = "lock_wait"]]
                 /\ UNCHANGED <<connected, handle, lock, memory_tokens,
                                redis_available, mem_stat, redis_grants>>
            ELSE ConnectLocked(p, r, cid)
       ELSE /\ UNCHANGED <<connected, handle, lock>>
            /\ Strategy(p, r, cid, redis_available, handle)

\* variant: connect without "async with self._connection_lock"
CheckRateLimit_NoLock(p, r0) ==
    LET cid == GetClientId(r0.ip, r0.state_org)
        r == [r0 EXCEPT !.client_id = cid, !.checked = TRUE]
    IN IF ~redis_available /\ settings.rl
       THEN IF ~settings.url \/ ~settings.rl
            THEN /\ UNCHANGED <<connected, handle, lock>>
                 /\ Strategy(p, r, cid, FALSE, handle)
            ELSE ConnectLocked(p, r, cid)
       ELSE /\ UNCHANGED <<connected, handle, lock>>
            /\ Strategy(p, r, cid, redis_available, handle)

\* check_rate_limit from its first line to its first suspension
CheckRateLimit(p, r0) ==
    LET cid == GetClientId(r0.ip, r0.state_org)
        r == [r0 EXCEPT !.client_id = cid, !.checked = TRUE]
    IN IF ~redis_available /\ settings.rl
       THEN IF ~settings.url \/ ~settings.rl
            THEN /\ UNCHANGED <<connected, handle, lock>>
                 /\ Strategy(p, r, cid, FALSE, handle)
            ELSE IF lock # 0
                 THEN /\ rq' = [rq EXCEPT ![p] = [r EXCEPT !.pc = "lock_wait"]]
                      /\ UNCHANGED <<connected, handle, lock, memory_tokens,
                                     redis_available, mem_stat, redis_grants>>
                 ELSE ConnectLocked(p, r, cid)
       ELSE /\ UNCHANGED <<connected, handle, lock>>
            /\ Strategy(p, r, cid, redis_available, handle)

\* ----------------------------------------------------------------- actions
cfgvars == <<rate_limit, window_size, settings>>

\* Slots are taken lowest first.
FirstFree(p) == \A q \in Procs : rq[q].pc = "idle" => ~(q < p)

\* check_rate_limit is called on a request whose state names organization
\* org ("": none), and runs to its first suspension.
Call(p) ==
    /\ started
    /\ rq[p].pc = "idle"
    /\ FirstFree(p)
    /\ ncalls < MaxCalls
    /\ ncalls' = ncalls + 1
    /\ UNCHANGED <<cfgvars, started, clock, redis_up, zset, ttl, ever_down, svars>>
    /\ \E ip \in IPs, org \in CallOrgs :
         CheckRateLimit(p, [IdleReq EXCEPT !.ip = ip, !.state_org = org])

\* A request arrives and runs down the middleware stack to its first
\* suspension, in RateLimitMiddleware.dispatch.
Begin(p) ==
    /\ started
    /\ rq[p].pc = "idle"
    /\ FirstFree(p)
    /\ ncalls < MwMaxCalls
    /\ ncalls' = ncalls + 1
    /\ UNCHANGED <<cfgvars, started, clock, redis_up, zset, ttl, ever_down, svars>>
    /\ \E ip \in IPs, path \in Paths, org \in OrgHeaders :
         LET r0 == [IdleReq EXCEPT !.mw = TRUE, !.ip = ip, !.path = path,
                                   !.org_header = org,
                                   !.state_org = StateOrgAtRateLimit(org)]
         IN IF path \in ExemptPaths
            THEN /\ rq' = [rq EXCEPT ![p] = [r0 EXCEPT !.pc = "handler"]]
                 /\ UNCHANGED <<connected, handle, lock, memory_tokens,
                                redis_available, mem_stat, redis_grants>>
            ELSE CheckRateLimit(p, r0)

\* RedisClient.connect: the waiter gets the connection lock
LockAcquire(p) ==
    /\ rq[p].pc = "lock_wait"
    /\ lock = 0
    /\ ConnectLocked(p, rq[p], rq[p].client_id)
    /\ UNCHANGED <<cfgvars, started, clock, redis_up, zset, ttl, ncalls, ever_down, svars>>

\* RedisClient.connect: the ping answers or fails; the lock is released and
\* check_rate_limit goes on with what connect returned.
Ping(p) ==
    /\ rq[p].pc = "ping"
    /\ lock' = 0
    /\ IF redis_up
       THEN /\ connected' = TRUE
            /\ UNCHANGED handle
            /\ Strategy(p, rq[p], rq[p].client_id, TRUE, handle)
       ELSE /\ connected' = FALSE
            /\ handle' = FALSE
            /\ Strategy(p, [rq[p] EXCEPT !.failed = TRUE], rq[p].client_id,
                        FALSE, FALSE)
    /\ UNCHANGED <<cfgvars, started, clock, redis_up, zset, ttl, ncalls, ever_down, svars>>

\* _check_redis_rate_limit: the pipeline (ZREMRANGEBYSCORE, ZCARD, EXPIRE) runs
\* as one transaction and the code goes on to the count test.
Pipe(p) ==
    LET r == rq[p]
        cid == r.client_id
        window_start == r.current_time - window_size
        kept == ZRemRangeByScore(zset[cid], window_start)
        current_requests == Cardinality(kept)
        r1 == r
    IN /\ rq[p].pc = "pipe"
       /\ UNCHANGED <<cfgvars, started, clock, redis_up, ncalls, ever_down, svars,
                      connected, handle, lock>>
       /\ IF redis_up
          THEN /\ zset' = [zset EXCEPT ![cid] = kept]
               /\ ttl' = [ttl EXCEPT ![cid] = ExpireKey(kept, @, clock)]
               /\ IF current_requests >= rate_limit
                  THEN /\ UNCHANGED <<memory_tokens, redis_available, mem_stat,
                                      redis_grants>>
                       /\ rq' = [rq EXCEPT ![p] = Outcome(r1, FALSE, RetryAfter, "redis",
                                                          redis_available)]
                  ELSE IF handle
                       THEN /\ UNCHANGED <<memory_tokens, redis_available, mem_stat,
                                           redis_grants>>
                            /\ rq' = [rq EXCEPT ![p] = [r1 EXCEPT !.pc = "zadd"]]
                       ELSE Fallback(p, r1, cid)
          ELSE /\ UNCHANGED <<zset, ttl>>
               /\ Fallback(p, r, cid)

\* _check_redis_rate_limit: "await redis_client._redis.zadd(...)"
Zadd(p) ==
    LET r == rq[p]
        cid == r.client_id
    IN /\ rq[p].pc = "zadd"
       /\ UNCHANGED <<cfgvars, started, clock, redis_up, ncalls, ever_down, svars,
                      connected, handle, lock, ttl>>
       /\ IF redis_up
          THEN /\ zset' = [zset EXCEPT ![cid] = ZAdd(@, r.current_time)]
               /\ IF handle
                  THEN /\ UNCHANGED <<memory_tokens, redis_available, mem_stat,
                                      redis_grants>>
                       /\ rq' = [rq EXCEPT ![p] = [r EXCEPT !.pc = "expire"]]
                  ELSE Fallback(p, r, cid)
          ELSE /\ UNCHANGED zset
               /\ Fallback(p, r, cid)

\* _check_redis_rate_limit: "await redis_client._redis.expire(...)", return True, 0
Expire(p) ==
    LET r == rq[p]
        cid == r.client_id
    IN /\ rq[p].pc = "expire"
       /\ UNCHANGED <<cfgvars, started, clock, redis_up, ncalls, ever_down, svars,
                      connected, handle, lock, zset>>
       /\ IF redis_up
          THEN /\ ttl' = [ttl EXCEPT ![cid] = ExpireKey(zset[cid], @, clock)]
               /\ UNCHANGED <<memory_tokens, redis_available, mem_stat>>
               /\ redis_grants' = [redis_grants EXCEPT ![cid][r.current_time] = @ + 1]
               /\ rq' = [rq EXCEPT ![p] = Outcome(r, TRUE, 0, "redis", redis_available)]
          ELSE /\ UNCHANGED ttl
               /\ Fallback(p, r, cid)

limvars == <<memory_tokens, redis_available, mem_stat, redis_grants>>

\* RedisClient.is_connected: what it leaves in self._connected.
IsConnected ==
    IF connected /\ handle /\ ~redis_up THEN FALSE ELSE connected

\* health_check (and the monitoring endpoints) probe the connection.
HealthCheck ==
    /\ started
    /\ connected' = IsConnected
    /\ connected' # connected
    /\ UNCHANGED <<cfgvars, started, clock, redis_up, zset, ttl, ncalls, ever_down,
                   svars, handle, lock, limvars, rq>>

\* variant: the absent connection handle is met outside the try block
InfoStart_Raises(r) ==
    LET info == [returned |-> FALSE,
                 client_id |-> GetClientId(r.ip, r.state_org),
                 rate_limit |-> rate_limit, window_size |-> window_size,
                 backend |-> IF redis_available THEN "redis" ELSE "memory",
                 error |-> FALSE]
    IN IF redis_available
       THEN IF handle THEN [r EXCEPT !.pc = "info", !.info = info]
            ELSE [r EXCEPT !.pc = "done", !.status = "500", !.info = info]
       ELSE [r EXCEPT !.pc = "done", !.status = "200",
                      !.info = [info EXCEPT !.returned = TRUE]]

\* get_rate_limit_info as dispatch calls it after call_next, up to its
\* suspension ("await redis_client._redis.zcard(key)") or its return.
InfoStart(r) ==
    LET info == [returned |-> FALSE,
                 client_id |-> GetClientId(r.ip, r.state_org),
                 rate_limit |-> rate_limit, window_size |-> window_size,
                 backend |-> IF redis_available THEN "redis" ELSE "memory",
                 error |-> FALSE]
    IN IF redis_available
       THEN IF handle THEN [r EXCEPT !.pc = "info", !.info = info]
            ELSE [r EXCEPT !.pc = "done", !.status = "200",
                           !.info = [info EXCEPT !.returned = TRUE, !.error = TRUE]]
       ELSE [r EXCEPT !.pc = "done", !.status = "200",
                      !.info = [info EXCEPT !.returned = TRUE]]

\* "await call_next(request)" of RateLimitMiddleware.dispatch ends.  Inside it
\* OrganizationMiddleware.dispatch sets request.state.organization_id and
\* calls the rest of the stack; when that raises it sets "default" and calls
\* it a second time.  o: "ok" (the route handler returned), "retried" (it
\* raised, and returned on OrganizationMiddleware's second call), "raised".
Handler(p) ==
    /\ rq[p].pc \in {"handler", "handler_retry"}
    /\ UNCHANGED <<cfgvars, started, clock, redis_up, zset, ttl, ncalls, ever_down,
                   svars, connected, handle, lock, limvars>>
    /\ \E o \in {"ok", "retried", "raised"} :
         LET r == [rq[p] EXCEPT
                     !.state_org = IF o = "ok" THEN OrgFromHeader(rq[p].org_header)
                                   ELSE "default",
                     !.handler_calls = @ + (IF o = "ok" THEN 1 ELSE 2)]
         IN rq' = [rq EXCEPT ![p] =
               IF rq[p].pc = "handler"
               THEN IF o = "raised" THEN [r EXCEPT !.pc = "handler_retry"]
                    ELSE IF r.path \in ExemptPaths
                         THEN [r EXCEPT !.pc = "done", !.status = "200"]
                         ELSE InfoStart(r)
               ELSE [r EXCEPT !.pc = "done",
                              !.status = IF o = "raised" THEN "500" ELSE "200"]]

\* get_rate_limit_info: the ZCARD answers or fails (the failure is caught)
Info(p) ==
    /\ rq[p].pc = "info"
    /\ rq' = [rq EXCEPT ![p] = [@ EXCEPT !.pc = "done", !.status = "200",
                                         !.info.returned = TRUE,
                                         !.info.error = ~redis_up]]
    /\ UNCHANGED <<cfgvars, started, clock, redis_up, zset, ttl, ncalls, ever_down,
                   svars, connected, handle, lock, limvars>>

\* The response has left; the slot takes the next request.
Release(p) ==
    /\ rq[p].pc = "done"
    /\ rq' = [rq EXCEPT ![p] = IdleReq]
    /\ UNCHANGED <<cfgvars, started, clock, redis_up, zset, ttl, ncalls, ever_down,
                   svars, connected, handle, lock, limvars>>

\* lifespan, its startup half: one call of RedisClient.connect before any
\* request is served.
Lifespan ==
    /\ ~started
    /\ started' = TRUE
    /\ IF settings.rl /\ settings.url
       THEN /\ connected' = redis_up
            /\ handle' = redis_up
       ELSE UNCHANGED <<connected, handle>>
    /\ UNCHANGED <<cfgvars, clock, redis_up, zset, ttl, ncalls, ever_down, svars,
                   lock, limvars, rq>>

\* lifespan, its shutdown half: RedisClient.disconnect takes the connection
\* lock, closes the connection and drops the handle.  Nothing in the
\* application waits for the requests in flight, and _redis_available is left
\* as it was.
Shutdown ==
    /\ started
    /\ lock = 0
    /\ started' = FALSE
    /\ connected' = FALSE
    /\ handle' = FALSE
    /\ UNCHANGED <<cfgvars, clock, redis_up, zset, ttl, ncalls, ever_down, svars,
                   lock, limvars, rq>>

\* Time passes; Redis drops the keys whose expiry time has come.
Tick ==
    /\ clock < MaxTime
    /\ clock' = clock + 1
    /\ zset' = [c \in ClientIds |->
                  IF ttl[c] # -1 /\ ttl[c] <= clock + 1 THEN {} ELSE zset[c]]
    /\ ttl' = [c \in ClientIds |->
                  IF ttl[c] # -1 /\ ttl[c] <= clock + 1 THEN -1 ELSE ttl[c]]
    /\ UNCHANGED <<cfgvars, started, redis_up, ncalls, ever_down, svars, connected,
                   handle, lock, limvars, rq>>

\* The Redis server (or the network to it) fails, and comes back.
EnvFail ==
    /\ redis_up
    /\ redis_up' = FALSE
    /\ ever_down' = TRUE
    /\ UNCHANGED <<cfgvars, started, clock, zset, ttl, ncalls, svars, connected,
                   handle, lock, limvars, rq>>

EnvRecover ==
    /\ ~redis_up
    /\ redis_up' = TRUE
    /\ UNCHANGED <<cfgvars, started, clock, zset, ttl, ncalls, ever_down, svars,
                   connected, handle, lock, limvars, rq>>

\* ---------------------------------------------------------------- search
\* The employee table is a sequence in primary-key order; an employee is
\* [id, organization_id, name, email, phone, status, department_id,
\* position_id, location_id]. A string is a sequence of ASCII codes, None the
\* absent string (NULL), and id 0 the NULL reference.
SearchOrgs == {"org1", "org2"}
Statuses == {"active", "inactive"}
None == <<-1>>

\* EmployeeCreate payloads: "b", "a", "ab", "a"
EmployeeCreates ==
    {[name |-> <<98>>, email |-> None, phone |-> None, status |-> "active",
      department_id |-> 1, position_id |-> 0, location_id |-> 0],
     [name |-> <<97>>, email |-> None, phone |-> None, status |-> "active",
      department_id |-> 0, position_id |-> 0, location_id |-> 0],
     [name |-> <<97, 98>>, email |-> None, phone |-> None, status |-> "inactive",
      department_id |-> 1, position_id |-> 0, location_id |-> 0],
     [name |-> <<97>>, email |-> None, phone |-> None, status |-> "inactive",
      department_id |-> 0, position_id |-> 0, location_id |-> 0]}

\* EmployeeSearchFilters as the schema fills it when the request gives nothing;
\* sort_order is "asc", an absent sort_by "" and an absent list empty
EmployeeSearchFilters ==
    [status |-> {}, location_ids |-> {}, department_ids |-> {}, position_ids |-> {},
     name |-> None, search_term |-> None, fuzzy_match |-> FALSE,
     search_fields |-> <<>>, exact_match |-> FALSE, case_sensitive |-> FALSE,
     sort_by |-> "", sort_order |-> <<97, 115, 99>>, include_relevance_score |-> FALSE,
     page |-> 1, page_size |-> 20, columns |-> <<>>]

\* requests that give status and department_ids ({}: not given), page and
\* page_size; the schema declares the last two as plain int.
Pages == 0..MaxPage
PageSizes == (-1..MaxPageSize) \cup {10}
FilterInputs ==
    {[EmployeeSearchFilters EXCEPT !.status = s, !.department_ids = d,
                                   !.page = p, !.page_size = z] :
        s \in {{}, {"active"}, {"inactive"}}, d \in {{}, {1}},
        p \in Pages, z \in PageSizes}

\* EmployeeRepository.create_with_org: the row the table gets
NewEmployee(rows, obj_in, organization_id) ==
    [id |-> Len(rows) + 1, organization_id |-> organization_id,
     name |-> obj_in.name, email |-> obj_in.email, phone |-> obj_in.phone,
     status |-> obj_in.status, department_id |-> obj_in.department_id,
     position_id |-> obj_in.position_id, location_id |-> obj_in.location_id]

\* a table of 25 employees of one organization, each made by create_with_org
SeededStore ==
    [i \in 1..25 |-> [id |-> i, organization_id |-> "org1",
                      name |-> IF i % 2 = 0 THEN <<97>> ELSE <<98>>,
                      email |-> None, phone |-> None,
                      status |-> "active", department_id |-> 0,
                      position_id |-> 0, location_id |-> 0]]

\* The departments, positions and locations tables: the name of each row, by
\* id. Department 1 is "ab", position 1 "dev", location 1 "hq".
DepartmentName(id) == IF id = 1 THEN <<97, 98>> ELSE None
PositionName(id) == IF id = 1 THEN <<100, 101, 118>> ELSE None
LocationName(id) == IF id = 1 THEN <<104, 113>> ELSE None

\* ------------------------------------------------------------------- text
\* str.lower() and SQLite's lower() on ASCII
LowerChar(c) == IF c >= 65 /\ c <= 90 THEN c + 32 ELSE c
Lower(s) == IF s = None THEN None ELSE [i \in 1..Len(s) |-> LowerChar(s[i])]

\* str.strip(): leading and trailing blanks removed
RECURSIVE LStrip(_)
LStrip(s) == IF s # <<>> /\ Head(s) = 32 THEN LStrip(Tail(s)) ELSE s
RECURSIVE RStrip(_)
RStrip(s) ==
    IF s # <<>> /\ s[Len(s)] = 32 THEN RStrip(SubSeq(s, 1, Len(s) - 1)) ELSE s
Strip(s) == RStrip(LStrip(s))

\* SQLite's "value LIKE pattern": '%' (37) matches any run of characters, '_'
\* (95) any one character, every other character itself without regard to
\* ASCII case; a NULL value matches nothing.
RECURSIVE LikeFrom(_, _)
LikeFrom(s, p) ==
    IF p = <<>> THEN s = <<>>
    ELSE IF Head(p) = 37
         THEN LikeFrom(s, Tail(p)) \/ (s # <<>> /\ LikeFrom(Tail(s), p))
         ELSE /\ s # <<>>
              /\ Head(p) = 95 \/ LowerChar(Head(s)) = LowerChar(Head(p))
              /\ LikeFrom(Tail(s), Tail(p))
Like(value, pattern) == value # None /\ LikeFrom(value, pattern)

\* SQL "value = term": NULL equals nothing
SqlEq(value, term) == value # None /\ value = term

\* the length of a longest common subsequence
RECURSIVE Lcs(_, _)
Lcs(a, b) ==
    IF a = <<>> \/ b = <<>> THEN 0
    ELSE IF Head(a) = Head(b) THEN 1 + Lcs(Tail(a), Tail(b))
    ELSE Max(Lcs(Tail(a), b), Lcs(a, Tail(b)))

\* variant: the matched characters are not divided by the lengths
FuzzRatio_Unscaled(s1, s2) == 100 * 2 * Lcs(s1, s2)

\* fuzz.ratio(s1, s2): 100 for equal strings, 0 when one is empty, else
\* int(round(100 * 2 * M / T)) with M the matched characters and T the two
\* lengths together. On the strings drawn here difflib's matching blocks and
\* the longest common subsequence count the same M, and 200 * M / T is never
\* half way between two integers.
FuzzRatio(s1, s2) ==
    IF s1 = s2 THEN 100
    ELSE IF s1 = <<>> \/ s2 = <<>> THEN 0
    ELSE (400 * Lcs(s1, s2) + Len(s1) + Len(s2)) \div (2 * (Len(s1) + Len(s2)))

\* --------------------------------------------------------------- queries
\* OFFSET n and LIMIT n as SQLite evaluates them: a negative offset is zero, a
\* negative limit is no limit.
Offset(rows, n) == SubSeq(rows, Max(n, 0) + 1, Len(rows))
Limit(rows, n) == IF n < 0 THEN rows ELSE SubSeq(rows, 1, Min(n, Len(rows)))

\* variant: the offset is counted from the page number itself
PageOffset_FromPage(filters) == filters.page * filters.page_size

\* offset = (filters.page - 1) * filters.page_size
PageOffset(filters) == (filters.page - 1) * filters.page_size

\* variant: the queries are not scoped by organization
InOrganization_Any(e, organization_id) == TRUE

\* .filter(Employee.organization_id == organization_id)
InOrganization(e, organization_id) == e.organization_id = organization_id

\* the filters both searches apply after the organization's: "if filters.x:"
\* guards each, so a list that is empty or absent filters nothing
StructuredFilters(e, filters) ==
    /\ filters.status # {} => e.status \in filters.status
    /\ filters.location_ids # {} => e.location_id \in filters.location_ids
    /\ filters.department_ids # {} => e.department_id \in filters.department_ids
    /\ filters.position_ids # {} => e.position_id \in filters.position_ids

\* "if filters.name:" Employee.name.ilike("%name%"), which only the
\* repository's two queries apply
NameFilter(e, filters) ==
    filters.name \notin {None, <<>>} =>
        Like(Lower(e.name), Lower(<<37>> \o filters.name \o <<37>>))

\* EmployeeRepository.search_by_org: WHERE keeps the rows that pass the filters;
\* there is no ORDER BY and the rows come in table order
SearchByOrg(rows, filters, organization_id) ==
    LET Keep(e) == /\ InOrganization(e, organization_id)
                   /\ StructuredFilters(e, filters)
                   /\ NameFilter(e, filters)
    IN Limit(Offset(SelectSeq(rows, Keep), PageOffset(filters)), filters.page_size)

\* EmployeeRepository.count_by_org
CountByOrg(rows, filters, organization_id) ==
    LET Keep(e) == /\ InOrganization(e, organization_id)
                   /\ StructuredFilters(e, filters)
                   /\ NameFilter(e, filters)
    IN Len(SelectSeq(rows, Keep))

\* a < b for strings as sequences of character codes (BINARY collation)
RECURSIVE NameLess(_, _)
NameLess(a, b) ==
    IF b = <<>> THEN FALSE
    ELSE IF a = <<>> THEN TRUE
    ELSE IF Head(a) # Head(b) THEN Head(a) < Head(b)
    ELSE NameLess(Tail(a), Tail(b))

\* ORDER BY employee.name: rows with equal names keep their table order
RECURSIVE OrderByName(_)
OrderByName(rows) ==
    IF rows = <<>> THEN <<>>
    ELSE LET e == Head(rows)
             sorted == OrderByName(Tail(rows))
             k == Cardinality({i \in 1..Len(sorted) : NameLess(sorted[i].name, e.name)})
         IN SubSeq(sorted, 1, k) \o <<e>> \o SubSeq(sorted, k + 1, Len(sorted))

\* ------------------------------------------------------------ search term
\* "if filters.search_term:" is false for None and for the empty string
HasSearchTerm(filters) == filters.search_term \notin {None, <<>>}

\* search_fields = filters.search_fields or ["name", "email"]
SearchFields(filters) ==
    IF filters.search_fields = <<>> THEN <<"name", "email">> ELSE filters.search_fields

\* the fields the loops over search_fields have a branch for; any other field
\* adds no condition
SearchableFields == {"name", "email", "department", "position", "location"}

\* the column a field names, through the outer joins
FieldValue(e, field) ==
    CASE field = "name" -> e.name
      [] field = "email" -> e.email
      [] field = "phone" -> e.phone
      [] field = "department" -> DepartmentName(e.department_id)
      [] field = "position" -> PositionName(e.position_id)
      [] field = "location" -> LocationName(e.location_id)
      [] OTHER -> None

\* field_column: func.lower(column) unless case_sensitive
FieldColumn(e, field, filters) ==
    IF filters.case_sensitive THEN FieldValue(e, field) ELSE Lower(FieldValue(e, field))

\* search_term: stripped, and lowered unless case_sensitive
SearchTerm(filters) ==
    IF filters.case_sensitive THEN Strip(filters.search_term)
    ELSE Lower(Strip(filters.search_term))

\* the condition one field adds: equality in exact-match mode, else
\* field_column.like("%term%")
SearchCondition(e, field, filters) ==
    IF filters.exact_match
    THEN SqlEq(FieldColumn(e, field, filters), SearchTerm(filters))
    ELSE Like(FieldColumn(e, field, filters), <<37>> \o SearchTerm(filters) \o <<37>>)

\* "if search_conditions:" query.filter(or_(*search_conditions))
SearchFilter(e, filters) ==
    LET fields == SearchFields(filters)
        listed == {i \in 1..Len(fields) : fields[i] \in SearchableFields}
    IN (HasSearchTerm(filters) /\ listed # {}) =>
          \E i \in listed : SearchCondition(e, fields[i], filters)

\* the weights of the relevance cases, in hundredths
ExactWeight(field) ==
    CASE field \in {"name", "email"} -> 100
      [] field \in {"department", "position"} -> 90
      [] field = "location" -> 80
      [] OTHER -> 0
PrefixWeight(field) ==
    CASE field = "name" -> 80
      [] field = "email" -> 70
      [] OTHER -> 0
ContainsWeight(field) ==
    CASE field = "name" -> 60
      [] field = "email" -> 50
      [] field \in {"department", "position"} -> 40
      [] field = "location" -> 30
      [] OTHER -> 0

\* the relevance cases of one field, summed: each case whose condition holds
\* contributes its weight
RelevanceCases(column, term, field) ==
    (IF SqlEq(column, term) THEN ExactWeight(field) ELSE 0)
    + (IF field \in {"name", "email"} /\ Like(column, term \o <<37>>)
       THEN PrefixWeight(field) ELSE 0)
    + (IF Like(column, <<37>> \o term \o <<37>>) THEN ContainsWeight(field) ELSE 0)

\* the relevance cases the loop adds for one field of search_fields
FieldRelevance(e, field, filters) ==
    RelevanceCases(FieldColumn(e, field, filters), SearchTerm(filters), field)

\* total_relevance = sum(relevance_cases), over the fields as listed
RECURSIVE TotalRelevance(_, _, _)
TotalRelevance(e, fields, filters) ==
    IF fields = <<>> THEN 0
    ELSE (IF Head(fields) \in SearchableFields
          THEN FieldRelevance(e, Head(fields), filters) ELSE 0)
         + TotalRelevance(e, Tail(fields), filters)

\* case((total_relevance > 1.0, 1.0), else_=total_relevance)
CapRelevance(total_relevance) ==
    IF total_relevance > 100 THEN 100 ELSE total_relevance

\* relevance_score: the capped sum
RelevanceScore(e, filters) ==
    CapRelevance(TotalRelevance(e, SearchFields(filters), filters))

\* "relevance_score is not None": a term, not exact-match mode, at least one
\* search condition, and include_relevance_score
HasRelevance(filters) ==
    /\ HasSearchTerm(filters)
    /\ ~filters.exact_match
    /\ \E i \in 1..Len(SearchFields(filters)) : SearchFields(filters)[i] \in SearchableFields
    /\ filters.include_relevance_score

\* --------------------------------------------------------------- sorting
\* the sort_by values that name a column
SortColumns ==
    {"name", "email", "created_at", "updated_at", "department", "position", "location"}

\* sort_column; None when sort_by names nothing, or names "relevance" while no
\* relevance score is computed
SortColumn(filters) ==
    IF filters.sort_by \in SortColumns THEN filters.sort_by
    ELSE IF filters.sort_by = "relevance" /\ HasRelevance(filters) THEN "relevance"
    ELSE "None"

\* a < b in ORDER BY: NULL sorts before every string
KeyLess(a, b) == b # None /\ (a = None \/ NameLess(a, b))

\* the value a row is ordered by; the rows are created at distinct instants,
\* so the two timestamps order them as their ids do
SortKey(e, column) ==
    IF column \in {"created_at", "updated_at"} THEN <<e.id>> ELSE FieldValue(e, column)

\* the rows by rank, ascending or descending: rows of equal rank keep their
\* table order
StableOrder(rows, rank, descending) ==
    LET Before(j, i) ==
            \/ IF descending THEN rank[j] > rank[i] ELSE rank[j] < rank[i]
            \/ rank[j] = rank[i] /\ j < i
        place == [i \in 1..Len(rows) |->
                    Cardinality({j \in 1..Len(rows) : Before(j, i)}) + 1]
    IN [k \in 1..Len(rows) |-> rows[CHOOSE i \in 1..Len(rows) : place[i] = k]]

\* ORDER BY column ASC or DESC; a row's rank is its relevance score, or the
\* number of rows whose key is smaller than its own
OrderBy(rows, column, descending, filters) ==
    StableOrder(rows,
                [i \in 1..Len(rows) |->
                   IF column = "relevance" THEN RelevanceScore(rows[i], filters)
                   ELSE Cardinality({j \in 1..Len(rows) :
                          KeyLess(SortKey(rows[j], column), SortKey(rows[i], column))})],
                descending)

\* "Apply sorting": sort_by when given (no ORDER BY at all when it names no
\* column), else descending relevance when a score is computed, else name
Sorted(rows, filters) ==
    IF filters.sort_by # ""
    THEN IF SortColumn(filters) = "None" THEN rows
         ELSE OrderBy(rows, SortColumn(filters),
                      Lower(filters.sort_order) = <<100, 101, 115, 99>>, filters)
    ELSE IF HasRelevance(filters) THEN OrderBy(rows, "relevance", TRUE, filters)
    ELSE OrderByName(rows)

\* ------------------------------------------------------- advanced search
\* no relevance score: None
NoScore == -1

\* the fuzzy branch is taken when fuzzy_match is set and the term is not blank
FuzzyApplies(filters) ==
    /\ filters.fuzzy_match
    /\ HasSearchTerm(filters)
    /\ Strip(filters.search_term) # <<>>

\* "if score is None or fuzzy_score > score: score = fuzzy_score"
BetterScore(score, fuzzy_score) ==
    IF score = NoScore \/ fuzzy_score > score THEN fuzzy_score ELSE score

\* the relevance_score of one EmployeeSearchResult, in hundredths: the fuzzy
\* ratio of the lowered term and the lowered name where the fuzzy branch is
\* taken, and None unless include_relevance_score
ResultScore(e, score, filters) ==
    LET merged == IF FuzzyApplies(filters)
                  THEN BetterScore(score, FuzzRatio(Lower(filters.search_term),
                                                    Lower(e.name)))
                  ELSE score
    IN IF filters.include_relevance_score THEN merged ELSE NoScore

\* "Execute query" and "Convert to search results". When a relevance score is
\* computed the query has two columns and query.all() gives Row objects; a Row
\* is no tuple, so every result is paired with 0.0 as it is, and the
\* conversion that follows reads employee.name and employee.id off a Row,
\* which raises AttributeError. The other queries give Employee objects, each
\* paired with the score None.
SearchResults(matching, page, filters) ==
    IF HasRelevance(filters) /\ page # <<>>
    THEN [outcome |-> "AttributeError", items |-> <<>>, scores |-> <<>>,
          total |-> -1]
    ELSE [outcome |-> "ok", items |-> page,
          scores |-> [k \in 1..Len(page) |-> ResultScore(page[k], NoScore, filters)],
          total |-> Len(matching)]

\* the query: WHERE, ORDER BY, OFFSET and LIMIT
PageOf(matching, filters) ==
    Limit(Offset(Sorted(matching, filters), PageOffset(filters)), filters.page_size)

\* the rows the WHERE clause keeps
Matching(rows, filters, organization_id) ==
    LET Keep(e) == /\ InOrganization(e, organization_id)
                   /\ StructuredFilters(e, filters)
                   /\ SearchFilter(e, filters)
    IN SelectSeq(rows, Keep)

\* the page of the matching rows and what the service makes of it
WithPage(matching, filters) == SearchResults(matching, PageOf(matching, filters), filters)

\* AdvancedSearchService.search_employees: the page, the score of each of its
\* results and total_count, or the exception it raises
AdvancedSearch(rows, filters, organization_id) ==
    WithPage(Matching(rows, filters, organization_id), filters)

\* ------------------------------------------------------------- endpoints
\* get_organization_columns: the default columns of an organization
OrganizationColumns(organization_id) ==
    CASE organization_id = "org1" -> <<"name", "email", "department", "position">>
      [] organization_id = "org2" -> <<"name", "status", "department", "location">>
      [] OTHER -> <<"name", "email", "phone", "status", "department", "position",
                    "location">>

\* valid_columns of search_employees; advanced_search_employees adds
\* "relevance_score"
ValidColumns ==
    {"id", "name", "email", "phone", "status", "department", "position",
     "location", "created_at", "updated_at"}

\* the fields of EmployeeSearchResult
ResultFields == ValidColumns \cup {"relevance_score"}

ColumnSet(columns) == {columns[i] : i \in 1..Len(columns)}

\* the keys of employee_dict: a basic field when it is among the columns, a
\* related field when it is among the columns and the relation is there
EmployeeDict(e, columns) ==
    (ColumnSet(columns)
       \cap {"id", "name", "email", "phone", "status", "created_at", "updated_at"})
    \cup {c \in ColumnSet(columns) \cap {"department", "position", "location"} :
            FieldValue(e, c) # None}

\* Python's a // b for b # 0
FloorDiv(a, b) == IF b > 0 THEN a \div b ELSE (-a) \div (-b)

\* a request that ends without a result list
Failed(kind, filters, organization_id, outcome) ==
    [kind |-> kind, organization_id |-> organization_id, filters |-> filters,
     outcome |-> outcome, items |-> <<>>, keys |-> <<>>, scores |-> <<>>,
     total |-> -1, pages |-> -1]

\* the endpoints' "total_pages = (total_count + page_size - 1) // page_size"
\* and the response; with page_size 0 the division raises ZeroDivisionError
\* and the request ends in a 500 without a body.
Respond(kind, filters, organization_id, items, keys, scores, total) ==
    IF filters.page_size = 0
    THEN Failed(kind, filters, organization_id, "ZeroDivisionError")
    ELSE [kind |-> kind, organization_id |-> organization_id, filters |-> filters,
          outcome |-> "ok", items |-> items, keys |-> keys, scores |-> scores,
          total |-> total,
          pages |-> FloorDiv(total + filters.page_size - 1, filters.page_size)]

\* search_employees: the columns are validated (400), the two repository
\* queries run, and every employee becomes a dict of the requested columns
\* the response search_employees makes of the two query results
BasicResponse(employees, total_count, columns, filters, organization_id) ==
    IF ColumnSet(columns) \ ValidColumns # {}
    THEN Failed("basic", filters, organization_id, "InvalidColumns")
    ELSE Respond("basic", filters, organization_id, employees,
                 [k \in 1..Len(employees) |-> EmployeeDict(employees[k], columns)],
                 [k \in 1..Len(employees) |-> NoScore],
                 total_count)

SearchEmployeesResponse(rows, filters, organization_id) ==
    BasicResponse(SearchByOrg(rows, filters, organization_id),
                  CountByOrg(rows, filters, organization_id),
                  IF filters.columns # <<>> THEN filters.columns
                  ELSE OrganizationColumns(organization_id),
                  filters, organization_id)

\* advanced_search_employees: the columns are validated (400), the service
\* searches (an exception of it ends the request in a 500), and the items are
\* the EmployeeSearchResult objects, each with every field of the schema
\* the response advanced_search_employees makes of the service's result
AdvancedResponse(res, filters, organization_id) ==
    IF ColumnSet(filters.columns) \ ResultFields # {}
    THEN Failed("advanced", filters, organization_id, "InvalidColumns")
    ELSE IF res.outcome # "ok"
    THEN Failed("advanced", filters, organization_id, res.outcome)
    ELSE Respond("advanced", filters, organization_id, res.items,
                 [k \in 1..Len(res.items) |-> ResultFields],
                 res.scores, res.total)

AdvancedSearchEmployeesResponse(rows, filters, organization_id) ==
    AdvancedResponse(AdvancedSearch(rows, filters, organization_id),
                     filters, organization_id)

searchfixed == rlvars

\* EmployeeService.create_by_org: EmployeeRepository.create_with_org
CreateEmployee ==
    /\ sres = [kind |-> "none"]
    /\ Len(store) < MaxEmp
    /\ \E organization_id \in SearchOrgs, obj_in \in EmployeeCreates :
         store' = Append(store, NewEmployee(store, obj_in, organization_id))
    /\ sres' = [kind |-> "none"]
    /\ UNCHANGED searchfixed

\* POST /employees/search: the endpoint search_employees
SearchEmployees ==
    /\ sres = [kind |-> "none"]
    /\ \E organization_id \in SearchOrgs, filters \in FilterInputs :
         sres' = SearchEmployeesResponse(store, filters, organization_id)
    /\ UNCHANGED <<store, searchfixed>>

\* POST /employees/advanced-search: the endpoint advanced_search_employees
AdvancedSearchEmployees ==
    /\ sres = [kind |-> "none"]
    /\ \E organization_id \in SearchOrgs, filters \in FilterInputs :
         sres' = AdvancedSearchEmployeesResponse(store, filters, organization_id)
    /\ UNCHANGED <<store, searchfixed>>

\* The response of a search has been sent; the next request is taken.
SendResponse ==
    /\ sres # [kind |-> "none"]
    /\ sres' = [kind |-> "none"]
    /\ UNCHANGED <<store, searchfixed>>

\* ------------------------------------------------- searches by text
\* EmployeeCreate payloads with names and relations that a term can tell
\* apart: "ab", "abc" (with the email "x"), "cab", "c" in department 1 ("ab"),
\* position 1 and location 1, and "Ab"
NamedCreates ==
    {[name |-> <<97, 98>>, email |-> None, phone |-> None, status |-> "active",
      department_id |-> 0, position_id |-> 0, location_id |-> 0],
     [name |-> <<97, 98, 99>>, email |-> <<120>>, phone |-> None, status |-> "active",
      department_id |-> 0, position_id |-> 0, location_id |-> 0],
     [name |-> <<99, 97, 98>>, email |-> None, phone |-> None, status |-> "inactive",
      department_id |-> 0, position_id |-> 0, location_id |-> 0],
     [name |-> <<99>>, email |-> None, phone |-> None, status |-> "active",
      department_id |-> 1, position_id |-> 1, location_id |-> 1],
     [name |-> <<65, 98>>, email |-> None, phone |-> None, status |-> "active",
      department_id |-> 0, position_id |-> 0, location_id |-> 0]}

QueryOrgs == {"org1"}

\* requests with structured filters, a name and columns: the name "a"; the
\* columns absent, name and department, relevance_score, and an unknown one
StructuredInputs ==
    {[EmployeeSearchFilters EXCEPT !.name = n, !.status = s, !.department_ids = d,
                                   !.position_ids = q, !.location_ids = l,
                                   !.columns = c] :
        n \in {None, <<97>>}, s \in {{}, {"active"}}, d \in {{}, {1}},
        q \in {{}, {1}}, l \in {{}, {1}},
        c \in {<<>>, <<"name", "department">>, <<"relevance_score">>, <<"bogus">>}}

\* requests with a search term: "ab", "Ab" or "a", over the default fields,
\* name, name and department, or phone
TermInputs ==
    {[EmployeeSearchFilters EXCEPT !.search_term = t, !.search_fields = f,
                                   !.exact_match = x, !.case_sensitive = c,
                                   !.include_relevance_score = r,
                                   !.fuzzy_match = z] :
        t \in {<<97, 98>>, <<65, 98>>, <<97>>},
        f \in {<<>>, <<"name">>, <<"name", "department">>, <<"phone">>},
        x \in BOOLEAN, c \in BOOLEAN, r \in BOOLEAN, z \in BOOLEAN}

\* requests with sort_by: a column, "relevance" or an unknown field; sort_order
\* "asc", "desc" or "DESC"; with or without the term "a" over name and
\* department
SortInputs ==
    {[EmployeeSearchFilters EXCEPT !.sort_by = b, !.sort_order = o,
                                   !.search_term = t,
                                   !.search_fields = <<"name", "department">>,
                                   !.include_relevance_score = r] :
        b \in {"name", "department", "relevance", "salary"},
        o \in {<<97, 115, 99>>, <<100, 101, 115, 99>>, <<68, 69, 83, 67>>},
        t \in {None, <<97>>}, r \in BOOLEAN}

\* EmployeeService.create_by_org with a named payload
CreateNamedEmployee ==
    /\ sres = [kind |-> "none"]
    /\ Len(store) < MaxEmp
    /\ \E organization_id \in QueryOrgs, obj_in \in NamedCreates :
         store' = Append(store, NewEmployee(store, obj_in, organization_id))
    /\ sres' = [kind |-> "none"]
    /\ UNCHANGED searchfixed

\* POST /employees/search with a name and columns
SearchEmployeesByName ==
    /\ sres = [kind |-> "none"]
    /\ \E organization_id \in QueryOrgs, filters \in StructuredInputs :
         sres' = SearchEmployeesResponse(store, filters, organization_id)
    /\ UNCHANGED <<store, searchfixed>>

\* POST /employees/advanced-search with a name and columns, a term, or sort_by
AdvancedSearchEmployeesByTerm ==
    /\ sres = [kind |-> "none"]
    /\ \E organization_id \in QueryOrgs,
          filters \in StructuredInputs \cup TermInputs \cup SortInputs :
         sres' = AdvancedSearchEmployeesResponse(store, filters, organization_id)
    /\ UNCHANGED <<store, searchfixed>>

\* ------------------------------------------------------- the specification
SettingsSet == {[url |-> TRUE, rl |-> TRUE], [url |-> FALSE, rl |-> TRUE],
                [url |-> TRUE, rl |-> FALSE]}

NoStore == <<>>
NoSearch == [kind |-> "none"]

\* HybridRateLimiter.__init__ and RedisClient.__init__
InitLimiter ==
    /\ \E c \in Configs : rate_limit = c[1] /\ window_size = c[2]
    /\ settings \in SettingsSet
    /\ memory_tokens = [c \in ClientIds |-> NoBucket]
    /\ redis_available = FALSE
    /\ connected = FALSE
    /\ handle = FALSE
    /\ lock = 0
    /\ started = FALSE
    /\ clock = 0
    /\ redis_up \in BOOLEAN
    /\ zset = [c \in ClientIds |-> {}]
    /\ ttl = [c \in ClientIds |-> -1]
    /\ rq = [p \in Procs |-> IdleReq]
    /\ ncalls = 0
    /\ ever_down = ~redis_up
    /\ mem_stat = [c \in ClientIds |-> NoStat]
    /\ redis_grants = [c \in ClientIds |-> [s \in Seconds |-> 0]]

Init ==
    /\ InitLimiter
    /\ store = NoStore
    /\ sres = NoSearch

\* the steps of a check_rate_limit call in progress
Limiter(p) ==
    \/ LockAcquire(p)
    \/ Ping(p)
    \/ Pipe(p)
    \/ Zadd(p)
    \/ Expire(p)
    \/ Release(p)

Env == Lifespan \/ Tick \/ EnvFail \/ EnvRecover \/ HealthCheck

\* check_rate_limit called by concurrent coroutines of one event loop
Next == (\E p \in Procs : Call(p) \/ Limiter(p)) \/ Env

Spec == Init /\ [][Next]_vars

\* check_rate_limit called again only after the call before it has returned;
\* with one call at a time the connection lock is never contended
SeqNext ==
    \/ Call(1)
    \/ Ping(1) \/ Pipe(1) \/ Zadd(1) \/ Expire(1) \/ Release(1)
    \/ Env

SeqSpec == Init /\ [][SeqNext]_vars

\* Requests served through the middleware stack, concurrently
MwNext ==
    \/ \E p \in Procs : Begin(p) \/ Limiter(p) \/ Handler(p) \/ Info(p)
    \/ Env
    \/ Shutdown

\* the configurations with rate_limit up to MaxRate
MwInit == Init /\ rate_limit <= MaxRate

MwSpec == MwInit /\ [][MwNext]_vars

\* The employee table and the two search endpoints, the rate limiter at rest
SearchInit ==
    /\ InitLimiter
    /\ rate_limit = 3
    /\ ~settings.rl
    /\ redis_up
    /\ store \in {NoStore, SeededStore}
    /\ sres = NoSearch

SearchNext ==
    CreateEmployee \/ SearchEmployees \/ AdvancedSearchEmployees \/ SendResponse

SearchSpec == SearchInit /\ [][SearchNext]_vars

\* The same table and endpoints, searched by name, term, sort_by and columns
QueryInit ==
    /\ InitLimiter
    /\ rate_limit = 3
    /\ ~settings.rl
    /\ redis_up
    /\ store = NoStore
    /\ sres = NoSearch

QueryNext ==
    \/ CreateNamedEmployee
    \/ SearchEmployeesByName
    \/ AdvancedSearchEmployeesByTerm
    \/ SendResponse

QuerySpec == QueryInit /\ [][QueryNext]_vars

\* The token bucket alone: _refill_tokens applied to any bucket map, at any time
Buckets ==
    {NoBucket} \cup [tokens : 0..rate_limit, last : 0..clock]

RefillInit ==
    /\ \E c \in Configs : rate_limit = c[1] /\ window_size = c[2]
    /\ settings = [url |-> FALSE, rl |-> FALSE]
    /\ clock \in 0..MaxTime
    /\ memory_tokens \in [ClientIds -> Buckets]
    /\ redis_available = FALSE
    /\ connected = FALSE
    /\ handle = FALSE
    /\ lock = 0
    /\ started = TRUE
    /\ redis_up = TRUE
    /\ zset = [c \in ClientIds |-> {}]
    /\ ttl = [c \in ClientIds |-> -1]
    /\ rq = [p \in Procs |-> IdleReq]
    /\ ncalls = 0
    /\ ever_down = FALSE
    /\ mem_stat = [c \in ClientIds |-> NoStat]
    /\ redis_grants = [c \in ClientIds |-> [s \in Seconds |-> 0]]
    /\ store = NoStore
    /\ sres = NoSearch

\* one run of _refill_tokens(client_id, time.time())
Refill ==
    /\ \E cid \in ClientIds :
         memory_tokens' = RefillTokens(memory_tokens, cid, clock)
    /\ UNCHANGED <<cfgvars, started, clock, redis_up, zset, ttl, ncalls, ever_down,
                   svars, connected, handle, lock, redis_available, mem_stat,
                   redis_grants, rq>>

RefillNext == Refill \/ Tick

RefillSpec == RefillInit /\ [][RefillNext]_vars

\* The local token bucket under check_rate_limit calls at any times, the
\* distributed backend not configured
BucketConfigs == Configs \cup {<<MaxRate + 1, SmallWindow>>}

BucketInit ==
    /\ \E c \in BucketConfigs : rate_limit = c[1] /\ window_size = c[2]
    /\ settings \in {[url |-> FALSE, rl |-> TRUE], [url |-> TRUE, rl |-> FALSE]}
    /\ memory_tokens = [c \in ClientIds |-> NoBucket]
    /\ redis_available = FALSE
    /\ connected = FALSE
    /\ handle = FALSE
    /\ lock = 0
    /\ started = TRUE
    /\ clock = 0
    /\ redis_up = TRUE
    /\ zset = [c \in ClientIds |-> {}]
    /\ ttl = [c \in ClientIds |-> -1]
    /\ rq = [p \in Procs |-> IdleReq]
    /\ ncalls = 0
    /\ ever_down = FALSE
    /\ mem_stat = [c \in ClientIds |-> NoStat]
    /\ redis_grants = [c \in ClientIds |-> [s \in Seconds |-> 0]]
    /\ store = NoStore
    /\ sres = NoSearch

BucketNext == (\E p \in Procs : Call(p) \/ Release(p)) \/ Tick

BucketSpec == BucketInit /\ [][BucketNext]_vars

\* ================================================================== claims

\* C1: a fresh client key that makes its in-memory checks with no time
\* passing gets exactly the first rate_limit of them allowed (the first leaves
\* rate_limit - 1 tokens) and every later one denied with
\* retry_after = floor(window_size / rate_limit); 3 per 60 s denies with 20.
C1_TokenBucketBoundary ==
    /\ \A c \in ClientIds :
         mem_stat[c].created = clock =>
           /\ mem_stat[c].allowed = Min(mem_stat[c].calls, rate_limit)
           /\ memory_tokens[c].tokens = rate_limit - mem_stat[c].allowed
    /\ \A p \in Procs :
         (rq[p].decided_by = "memory" /\ rq[p].allowed = "no") =>
           /\ rq[p].retry_after * rate_limit <= window_size
           /\ window_size < (rq[p].retry_after + 1) * rate_limit
           /\ (rate_limit = 3 /\ window_size = 60 => rq[p].retry_after = 20)

C1_Witness ==
    \E p \in Procs :
      /\ rate_limit = 3 /\ window_size = 60
      /\ rq[p].decided_by = "memory" /\ rq[p].allowed = "no"
      /\ rq[p].retry_after = 20
      /\ mem_stat[rq[p].client_id].created = clock
      /\ mem_stat[rq[p].client_id].calls = 4
      /\ mem_stat[rq[p].client_id].allowed = 3

C3_WindowNeverExceedsRate ==
    \A c \in ClientIds : Cardinality(zset[c]) <= rate_limit

\* C4: a call decided while the backend is failing is decided by the local
\* bucket and leaves the limiter in Local mode; while the backend has never
\* failed every call is decided by the distributed counter.
C4_FallbackOrdering ==
    [][\A p \in Procs :
         (rq[p].decided_by = "" /\ rq'[p].decided_by # "" /\ settings.url /\ settings.rl) =>
           /\ ~redis_up => (rq'[p].decided_by = "memory" /\ ~redis_available')
           /\ ~ever_down => rq'[p].decided_by = "redis"]_vars

C4_Witness ==
    \E p \in Procs :
      /\ rq[p].decided_by = "memory" /\ rq[p].failed
      /\ ~redis_up /\ ~redis_available
      /\ \E c \in ClientIds, t \in Seconds : redis_grants[c][t] > 0

\* C5: a call during which a connection attempt or a distributed-counter
\* operation failed ends with the local bucket's decision for that request: an
\* allow, or a 429 that carries the local bucket's retry-after and names the
\* local backend; it ends with no other error.
C5_BackendFailureAbsorbed ==
    \A p \in Procs :
      rq[p].failed =>
        /\ rq[p].decided_by = "memory"
        /\ \/ rq[p].allowed = "yes" /\ rq[p].status = ""
           \/ /\ rq[p].allowed = "no" /\ rq[p].status = "429"
              /\ rq[p].label = "memory"
              /\ rq[p].retry_after = window_size \div rate_limit

C5_Witness ==
    \E p \in Procs :
      rq[p].failed /\ rq[p].allowed = "no" /\ rq[p].status = "429"

\* C7: two requests that come through the middleware stack from one client IP
\* with different organization identifiers are counted against different
\* client keys.
C7_QuotaIsolation ==
    \A p, q \in Procs :
      (rq[p].checked /\ rq[q].checked /\ rq[p].ip = rq[q].ip
         /\ rq[p].org_header # rq[q].org_header) =>
        rq[p].client_id # rq[q].client_id

HandlerInvoked(p) ==
    rq[p].pc \in {"handler", "handler_retry"} \/ rq[p].handler_calls > 0

\* C8, as stated: every request, whatever its path, is submitted to
\* check_rate_limit before a handler is invoked for it.
C8_EveryRequestChecked ==
    \A p \in Procs : HandlerInvoked(p) => rq[p].checked

\* C8, amended: every request whose path is none of /, /health, /docs, /redoc,
\* /openapi.json is submitted to check_rate_limit before a handler is invoked
\* for it.
C8_NonExemptRequestChecked ==
    \A p \in Procs :
      (HandlerInvoked(p)
         /\ rq[p].path \notin {"/", "/health", "/docs", "/redoc", "/openapi.json"}) =>
        rq[p].checked

C8_Witness ==
    \E p \in Procs :
      /\ rq[p].path = "/api/v1/employees/search"
      /\ rq[p].handler_calls > 0
      /\ rq[p].checked

\* the records of organization A that satisfy the status and department
\* filters of the search sres answers
MatchingInOrg(A) ==
    {i \in 1..Len(store) :
       /\ store[i].organization_id = A
       /\ sres.filters.status # {} => store[i].status \in sres.filters.status
       /\ sres.filters.department_ids # {} =>
            store[i].department_id \in sres.filters.department_ids}

C10_InvalidPaginationRejected ==
    (sres.kind # "none" /\ (sres.filters.page < 1 \/ sres.filters.page_size < 1)) =>
      (sres.outcome = "ValidationError" /\ sres.items = <<>>)

\* C19: in every limiter mode and backend condition (answering, failing, or
\* the handle absent while the limiter believes the backend available) a
\* get_rate_limit_info call that was made ends by returning an info object
\* with the request's client_id, rate_limit, window_size and the backend the
\* limiter believed in; a backend failure is marked in it, never raised.
C19_IntrospectionNeverFails ==
    \A p \in Procs :
      LET r == rq[p]
      IN /\ (r.pc = "done" /\ r.info.backend # "") =>
              /\ r.status = "200"
              /\ r.info.returned
              /\ r.info.client_id = GetClientId(r.ip, r.state_org)
              /\ r.info.rate_limit = rate_limit
              /\ r.info.window_size = window_size
              /\ r.info.backend \in {"redis", "memory"}
              /\ r.info.error => r.info.backend = "redis"
         /\ (r.pc = "done" /\ r.mw /\ r.status = "200"
               /\ r.path \notin ExemptPaths /\ r.handler_calls = 1) =>
              r.info.returned

C19_Witness ==
    \E p \in Procs :
      /\ rq[p].pc = "done"
      /\ rq[p].info.returned /\ rq[p].info.error
      /\ redis_available /\ ~handle

\* C20: every denial carries the retry-after, the limit, the window and a
\* backend label, and under any interleaving of concurrent calls the label
\* names the backend whose state produced the denial.
C20_DenialAttribution ==
    \A p \in Procs :
      rq[p].allowed = "no" =>
        /\ rq[p].status = "429"
        /\ rq[p].retry_after = window_size \div rate_limit
        /\ rq[p].label = rq[p].decided_by

\* C11: an advanced search whose sort_by is not one of the supported sort
\* fields, or is "relevance" while no relevance score is computed, ends in a
\* validation error instead of a result list in some other order.
C11_InvalidSortFieldRejected ==
    (/\ sres.kind = "advanced"
     /\ sres.filters.sort_by # ""
     /\ sres.filters.sort_by \notin SortColumns
     /\ sres.filters.sort_by = "relevance" => ~HasRelevance(sres.filters))
      => sres.outcome = "ValidationError"

\* s holds t as a run of consecutive characters
Contains(s, t) ==
    \E i \in 0..(Len(s) - Len(t)) : SubSeq(s, i + 1, i + Len(t)) = t

\* the record matches the term of the search sres answers in one field:
\* equality in exact-match mode, containment otherwise, both with the case
\* folded unless case_sensitive
TermMatches(e, field) ==
    LET value == FieldValue(e, field)
        v == IF sres.filters.case_sensitive THEN value ELSE Lower(value)
        t == IF sres.filters.case_sensitive THEN Strip(sres.filters.search_term)
             ELSE Lower(Strip(sres.filters.search_term))
    IN /\ value # None
       /\ IF sres.filters.exact_match THEN v = t ELSE Contains(v, t)

\* the record matches the term in at least one of the listed fields
TermHit(e) ==
    \E i \in 1..Len(SearchFields(sres.filters)) :
        TermMatches(e, SearchFields(sres.filters)[i])

\* C12: when a non-empty search term is supplied, every returned record
\* matches the term in at least one of the listed search fields (equality in
\* exact-match mode, containment otherwise, case folded unless
\* case_sensitive), and total counts exactly the organization's records that
\* do.
C12_SearchTermFiltering ==
    (/\ sres.kind = "advanced"
     /\ HasSearchTerm(sres.filters)
     /\ sres.outcome = "ok")
      => /\ \A k \in 1..Len(sres.items) : TermHit(sres.items[k])
         /\ sres.total = Cardinality({i \in 1..Len(store) :
                             /\ store[i].organization_id = sres.organization_id
                             /\ TermHit(store[i])})

\* C13: with sort_by absent, a search that sets include_relevance_score and
\* has a search term returns its results by descending relevance, in exact
\* and in non-exact mode alike; any other search with sort_by absent returns
\* them by ascending name.
C13_SortKeySelection ==
    (/\ sres.kind = "advanced"
     /\ sres.filters.sort_by = ""
     /\ sres.outcome # "InvalidColumns")
      => /\ sres.outcome = "ok"
         /\ \A k \in 1..(Len(sres.items) - 1) :
              IF sres.filters.include_relevance_score /\ HasSearchTerm(sres.filters)
              THEN RelevanceScore(sres.items[k], sres.filters)
                     >= RelevanceScore(sres.items[k + 1], sres.filters)
              ELSE ~NameLess(sres.items[k + 1].name, sres.items[k].name)

\* s begins with a
StartsWith(s, a) == Len(a) <= Len(s) /\ SubSeq(s, 1, Len(a)) = a

\* the ways a record of the table can match the term of the search sres
\* answers over the fields name and department, with the case folded
\* unless case_sensitive, the other field not matching at all
FoldedName(e) == FieldColumn(e, "name", sres.filters)
FoldedDepartment(e) == FieldColumn(e, "department", sres.filters)
DepartmentMisses(e) ==
    FoldedDepartment(e) = None \/ ~Contains(FoldedDepartment(e), SearchTerm(sres.filters))
OnlyExactName(e) ==
    FoldedName(e) = SearchTerm(sres.filters) /\ DepartmentMisses(e)
OnlyPrefixName(e) ==
    /\ FoldedName(e) # SearchTerm(sres.filters)
    /\ StartsWith(FoldedName(e), SearchTerm(sres.filters))
    /\ DepartmentMisses(e)
OnlySubstringName(e) ==
    /\ ~StartsWith(FoldedName(e), SearchTerm(sres.filters))
    /\ Contains(FoldedName(e), SearchTerm(sres.filters))
    /\ DepartmentMisses(e)
OnlyExactDepartment(e) ==
    /\ FoldedDepartment(e) = SearchTerm(sres.filters)
    /\ ~Contains(FoldedName(e), SearchTerm(sres.filters))

\* C14: for the term of a search over name and department, the relevance
\* score of a record whose only match is an exact name match is at least
\* that of one whose only match is a name prefix, which is at least that of
\* one whose only match is a name substring, which is at least that of one
\* whose only match is an exact department match.
C14_MonotonicScoring ==
    (/\ sres.kind = "advanced"
     /\ HasSearchTerm(sres.filters)
     /\ ~sres.filters.exact_match
     /\ sres.filters.search_fields = <<"name", "department">>)
      => \A i, j \in 1..Len(store) :
           LET a == RelevanceScore(store[i], sres.filters)
               b == RelevanceScore(store[j], sres.filters)
           IN /\ (OnlyExactName(store[i]) /\ OnlyPrefixName(store[j])) => a >= b
              /\ (OnlyPrefixName(store[i]) /\ OnlySubstringName(store[j])) => a >= b
              /\ (OnlySubstringName(store[i]) /\ OnlyExactDepartment(store[j])) => a >= b

\* C15: every relevance_score attached to a result of an advanced search
\* lies between 0 and 1 (0 and 100 hundredths), and so does the capped sum
\* of the field weights of every record, whatever the term, the search
\* fields and the flags.
C15_ScoreBound ==
    sres.kind = "advanced" =>
      /\ \A k \in 1..Len(sres.scores) :
           sres.scores[k] = NoScore \/ sres.scores[k] \in 0..100
      /\ HasSearchTerm(sres.filters) =>
           \A i \in 1..Len(store) : RelevanceScore(store[i], sres.filters) \in 0..100

C15_Witness ==
    /\ sres.kind = "advanced"
    /\ sres.outcome = "ok"
    /\ \E k \in 1..Len(sres.scores) : sres.scores[k] \in 1..99
    /\ \E k \in 1..Len(sres.scores) : sres.scores[k] = 100
    /\ \E i \in 1..Len(store) :
         TotalRelevance(store[i], <<"name", "department">>, sres.filters) > 100

\* C16: when fuzzy matching is enabled and a structured relevance score is
\* computed as well, the score attached to each result is the larger of its
\* structured score and its fuzzy score.
C16_ScoreCombination ==
    (/\ sres.kind = "advanced"
     /\ HasRelevance(sres.filters)
     /\ FuzzyApplies(sres.filters))
      => /\ sres.outcome = "ok"
         /\ \A k \in 1..Len(sres.items) :
              sres.scores[k] =
                Max(RelevanceScore(sres.items[k], sres.filters),
                    FuzzRatio(Lower(sres.filters.search_term),
                              Lower(sres.items[k].name)))

\* the columns the advanced endpoint reports: filters.columns or its default
\* list, with "relevance_score" appended when include_relevance_score
AdvancedColumns(filters) ==
    LET columns == IF filters.columns # <<>> THEN filters.columns
                   ELSE <<"id", "name", "email", "department", "position", "status">>
    IN IF filters.include_relevance_score /\ "relevance_score" \notin ColumnSet(columns)
       THEN Append(columns, "relevance_score") ELSE columns

\* C17: every item a search returns holds exactly the requested columns, or
\* the default columns when none is requested, no more and no fewer, also
\* for a record without department, position or location.
C17_ColumnProjection ==
    (sres.kind # "none" /\ sres.outcome = "ok") =>
      \A k \in 1..Len(sres.items) :
        sres.keys[k] =
          ColumnSet(IF sres.kind = "advanced" THEN AdvancedColumns(sres.filters)
                    ELSE IF sres.filters.columns # <<>> THEN sres.filters.columns
                    ELSE OrganizationColumns(sres.organization_id))

\* C18: on the basic and on the advanced search every returned record
\* satisfies every structured filter that was supplied: its status and its
\* department, position and location ids are in the lists given, and its
\* name holds the name given; a filter not given excludes nothing.
C18_StructuredFiltersHonoured ==
    sres.kind # "none" =>
      \A k \in 1..Len(sres.items) :
        LET e == sres.items[k]
            f == sres.filters
        IN /\ f.status # {} => e.status \in f.status
           /\ f.department_ids # {} => e.department_id \in f.department_ids
           /\ f.position_ids # {} => e.position_id \in f.position_ids
           /\ f.location_ids # {} => e.location_id \in f.location_ids
           /\ f.name \notin {None, <<>>} => Contains(Lower(e.name), Lower(f.name))


\* ------------------------------------------------------------- liveness
\* The event loop runs every coroutine that is ready, and an awaited Redis
\* reply (or its error) arrives: each step of a check in progress is taken.
\* Requests keep arriving while the arrival budget lasts.
Fairness ==
    /\ \A p \in Procs : WF_vars(Limiter(p))
    /\ WF_vars(\E p \in Procs : Call(p))

\* one limiter with the distributed backend configured
LiveInit == Init /\ settings.url /\ settings.rl /\ rate_limit <= MaxRate

LiveSpec == LiveInit /\ [][Next]_vars /\ Fairness

\* a fallback has left the limiter in Local mode and a request is still to come
FallenBack ==
    /\ started /\ ever_down /\ ~redis_available
    /\ ncalls < MaxCalls

\* C21: with the distributed backend enabled, once the limiter has fallen back
\* to Local and the backend is reachable and stays reachable, requests that
\* keep arriving lead to a state from which the limiter stays in Distributed
\* mode, and (no request being in flight at the fallback) to a later request
\* decided by the distributed counter.
C21_RestoreLiveness ==
    /\ [](( FallenBack /\ []redis_up) => <>[]redis_available)
    /\ [](( FallenBack /\ (\A p \in Procs : rq[p].pc = "idle") /\ []redis_up) =>
            <>(\E p \in Procs : rq[p].pc = "done" /\ rq[p].decided_by = "redis"))

C21_Witness ==
    /\ ever_down /\ redis_up /\ redis_available
    /\ \E c \in ClientIds : mem_stat[c].calls > 0
    /\ \E p \in Procs : rq[p].pc = "done" /\ rq[p].decided_by = "redis"

\* REDIS_RATE_LIMITING is off or REDIS_URL is empty
LocalOnly == ~settings.rl \/ ~settings.url

\* C22: when distributed rate limiting is disabled or no backend URL is
\* configured, the limiter is never in Distributed mode, no connection is
\* attempted and every decision of check_rate_limit is the local token
\* bucket's.
C22_LocalOnlyMode ==
    LocalOnly =>
      /\ ~redis_available
      /\ \A c \in ClientIds, t \in Seconds : redis_grants[c][t] = 0
      /\ \A p \in Procs :
           /\ rq[p].pc \in {"idle", "done"}
           /\ rq[p].decided_by \in {"", "memory"}
           /\ rq[p].pc = "done" => rq[p].decided_by = "memory"

C22_Witness ==
    /\ LocalOnly /\ redis_up
    /\ \E p \in Procs :
         rq[p].pc = "done" /\ rq[p].decided_by = "memory" /\ rq[p].allowed = "no"

\* the callers inside a connection attempt (from_url done, ping awaited)
Attempting == {p \in Procs : rq[p].pc = "ping"}

C24_RefillIdempotent ==
    \A cid \in ClientIds :
      LET once == RefillTokens(memory_tokens, cid, clock)
      IN RefillTokens(once, cid, clock) = once

\* a bucket the first run credits, below capacity after it
C24_Witness ==
    \E cid \in ClientIds :
      LET once == RefillTokens(memory_tokens, cid, clock)
      IN /\ memory_tokens[cid] # NoBucket
         /\ once[cid].tokens > memory_tokens[cid].tokens
         /\ once[cid].tokens < rate_limit
         /\ once[cid].last = clock /\ memory_tokens[cid].last < clock

\* C25: a request decided by the local bucket, for a key that the distributed
\* counter has already allowed rate_limit requests in the window that ends at
\* the request's second, is denied.
C25_FallbackGrantsNoExtraQuota ==
    [][\A p \in Procs :
         (rq[p].decided_by = "" /\ rq'[p].decided_by = "memory"
            /\ WindowGrants(rq'[p].client_id, clock \div TicksPerSec) >= rate_limit) =>
           rq'[p].allowed = "no"]_vars

\* a request has been decided by the local bucket although the distributed
\* backend is configured: a failure has moved the limiter to Local
MovedToLocal ==
    /\ settings.url /\ settings.rl
    /\ ~redis_available
    /\ \E c \in ClientIds : mem_stat[c].calls > 0

\* C26: once a failure has moved the limiter to Local, the step that puts it
\* back in Distributed mode is the successful answer of a connectivity probe
\* (the ping of a connection attempt), never a connection state recorded
\* before.
C26_ReverificationBeforeRestore ==
    [][(MovedToLocal /\ redis_available') =>
         \E p \in Procs : rq[p].pc = "ping" /\ rq'[p].pc # "ping" /\ redis_up]_vars

\* C27: a search with sort_by absent, include_relevance_score set and a
\* search term present, fuzzy matching enabled or not, returns a page whose
\* items carry relevance scores in non-increasing order.
C27_BestMatchesFirst ==
    (/\ sres.kind = "advanced"
     /\ sres.filters.sort_by = ""
     /\ sres.filters.include_relevance_score
     /\ HasSearchTerm(sres.filters)
     /\ sres.outcome # "InvalidColumns")
      => /\ sres.outcome = "ok"
         /\ \A k \in 1..(Len(sres.items) - 1) :
              sres.scores[k] >= sres.scores[k + 1]

\* no refill of the key's bucket has been cut by the capacity
BelowCapacity(c) ==
    memory_tokens[c].tokens = rate_limit + mem_stat[c].credited - mem_stat[c].allowed

\* floor((now - creation_time) * R / window_size)
TokensDue(c) ==
    ((clock - mem_stat[c].created) * rate_limit) \div (window_size * TicksPerSec)

\* C28: after every call on a local bucket that no refill has filled beyond
\* capacity, the tokens credited since the bucket's creation differ from
\* floor((now - creation_time) * rate_limit / window_size) by less than one.
C28_RefillLosesNoElapsedTime ==
    [][\A c \in ClientIds :
         (mem_stat'[c].calls > mem_stat[c].calls /\ BelowCapacity(c)') =>
           /\ TokensDue(c)' - mem_stat'[c].credited < 1
           /\ mem_stat'[c].credited - TokensDue(c)' < 1]_vars

\* C29: under concurrent requests and time advances every key's token count
\* stays between 0 and rate_limit; a call the local bucket allows leaves one
\* token less than the refill computed, and a call it denies leaves what the
\* refill computed.
C29_TokenCountInvariant ==
    /\ [](\A c \in ClientIds :
            memory_tokens[c] # NoBucket =>
              (0 <= memory_tokens[c].tokens /\ memory_tokens[c].tokens <= rate_limit))
    /\ [][\A p \in Procs :
            (rq[p].decided_by = "" /\ rq'[p].decided_by = "memory") =>
              LET c == rq'[p].client_id
                  refilled == RefillTokens(memory_tokens, c, clock)[c].tokens
              IN /\ rq'[p].allowed = "yes" => memory_tokens'[c].tokens = refilled - 1
                 /\ rq'[p].allowed = "no" => memory_tokens'[c].tokens = refilled
                 /\ \A d \in ClientIds \ {c} : memory_tokens'[d] = memory_tokens[d]]_vars

\* a denial at an empty bucket that refills have credited, a second request
\* of the key in flight
C29_Witness ==
    \E p, q \in Procs :
      /\ p # q
      /\ rq[p].decided_by = "memory" /\ rq[p].allowed = "no"
      /\ memory_tokens[rq[p].client_id].tokens = 0
      /\ mem_stat[rq[p].client_id].credited > 0
      /\ rq[q].pc \notin {"idle", "done"}
      /\ rq[q].client_id = rq[p].client_id

\* C30: no request passing through RateLimitMiddleware has call_next invoked
\* for it a second time, whether the handler raised or the limiter failed,
\* and a request denied with 429 has reached no handler.
C30_AtMostOnceHandling ==
    \A p \in Procs :
      /\ rq[p].pc # "handler_retry"
      /\ rq[p].status = "429" => rq[p].handler_calls = 0

====
